---- MODULE Spec2Model ----
(***************************************************************************)
(* The signup handler POST of src/app/api/auth/signup/route.ts, with the   *)
(* user repository (connectDB, User.findOne, User.create) it calls.        *)
(*                                                                         *)
(* Text is a sequence of one-character strings, so that the email pattern, *)
(* toLowerCase, trim and length are computed and not assumed.  A message   *)
(* is a sequence of fragments whose concatenation is the text sent.        *)
(***************************************************************************)
EXTENDS Integers, Sequences, FiniteSets, TLC

MaxProcs == 2
MaxRequests == 3

Procs == 1..MaxProcs

(***************************************************************************)
(* JSON values of the request body's properties.                           *)
(***************************************************************************)
Undef == [k |-> "undefined", s |-> <<>>]
Str(s) == [k |-> "string", s |-> s]
\* a non-zero number; s holds its decimal digits
Num(s) == [k |-> "number", s |-> s]

\* JavaScript truthiness, as used by !name, !email, !password, body.employeeId
Truthy(v) == v.k = "number" \/ (v.k = "string" /\ v.s # <<>>)

\* String(v), the coercion RegExp.prototype.test applies to its argument
StringOf(v) ==
  IF v.k = "undefined" THEN <<"u", "n", "d", "e", "f", "i", "n", "e", "d">>
  ELSE v.s

IsSpace(c) == c = " "

\* String.prototype.toLowerCase on the letters the requests use
LowerChar(c) ==
  CASE c = "A" -> "a"
    [] c = "B" -> "b"
    [] OTHER -> c

ToLowerCase(s) == [i \in 1..Len(s) |-> LowerChar(s[i])]

RECURSIVE TrimStart(_)
TrimStart(s) ==
  IF s # <<>> /\ IsSpace(Head(s)) THEN TrimStart(Tail(s)) ELSE s

RECURSIVE TrimEnd(_)
TrimEnd(s) ==
  IF s # <<>> /\ IsSpace(s[Len(s)]) THEN TrimEnd(SubSeq(s, 1, Len(s) - 1)) ELSE s

\* String.prototype.trim
Trim(s) == TrimEnd(TrimStart(s))

\* [^\s@]
NotSpaceNotAt(c) == ~IsSpace(c) /\ c # "@"

\* faulty variant: the pattern without the ".tld" part, /^[^\s@]+@[^\s@]+$/
EmailRegexNoDot(v) ==
  LET s == StringOf(v) IN
  \E i \in 1..Len(s) :
    /\ s[i] = "@"
    /\ i > 1 /\ i < Len(s)
    /\ \A n \in 1..Len(s) : n # i => NotSpaceNotAt(s[n])

\* /^[^\s@]+@[^\s@]+\.[^\s@]+$/.test(v): the "@" at i, the "." at j
EmailRegexTest(v) ==
  LET s == StringOf(v) IN
  \E i \in 1..Len(s), j \in 1..Len(s) :
    /\ s[i] = "@"
    /\ s[j] = "."
    /\ i > 1
    /\ j > i + 1
    /\ j < Len(s)
    /\ \A n \in 1..Len(s) : n # i => NotSpaceNotAt(s[n])

(***************************************************************************)
(* Responses.                                                              *)
(***************************************************************************)
MsgInvalidJSON == <<"Invalid JSON payload">>
MsgRequired == <<"Name, email, and password are required">>
MsgEmail == <<"Please enter a valid email address">>
MsgPassword == <<"Password must be at least 6 characters long">>
MsgExists == <<"User with this email", " already exists">>
MsgCreated == <<"User created successfully">>
MsgUnexpected == <<"An unexpected error occurred">>
MsgDbFailed == <<"Database operation failed: ">>

NoResponse == [status |-> 0, body |-> [message |-> <<>>]]

\* handleError(message, status)
handleError(message, status) == [status |-> status, body |-> [message |-> message]]

(***************************************************************************)
(* Request validation.                                                     *)
(***************************************************************************)
\* faulty variant: the boundary moved, password.length <= 6
PasswordTooShortOffByOne(password) ==
  password.k = "string" /\ Len(password.s) <= 6

\* password.length < 6; a number has no length, and undefined < 6 is false
PasswordTooShort(password) ==
  password.k = "string" /\ Len(password.s) < 6

\* !name || !email || !password
RequiredMissing(body) ==
  ~Truthy(body.name) \/ ~Truthy(body.email) \/ ~Truthy(body.password)

\* faulty variant: the password rule tested before the email rule
ValidatePasswordFirst(body) ==
  IF RequiredMissing(body) THEN MsgRequired
  ELSE IF PasswordTooShort(body.password) THEN MsgPassword
  ELSE IF ~EmailRegexTest(body.email) THEN MsgEmail
  ELSE <<>>

\* the three rules applied to a destructured body; <<>> when all pass
Validate(body) ==
  IF RequiredMissing(body) THEN MsgRequired
  ELSE IF ~EmailRegexTest(body.email) THEN MsgEmail
  ELSE IF PasswordTooShort(body.password) THEN MsgPassword
  ELSE <<>>

(***************************************************************************)
(* Request bodies: what request.json() yields.                             *)
(***************************************************************************)
\* kind: "malformed" (json() rejects), "null", "scalar" or "object"
Body(kind, name, email, password, phone, role, employeeId) ==
  [kind |-> kind, name |-> name, email |-> email, password |-> password,
   phone |-> phone, role |-> role, employeeId |-> employeeId]

NonObject(kind) == Body(kind, Undef, Undef, Undef, Undef, Undef, Undef)

(***************************************************************************)
(* Thrown values, with the properties the catch block reads.  code 0       *)
(* stands for an object without a code property.                           *)
(***************************************************************************)
Thrown(isError, name, code, keyPattern, errors, message) ==
  [isError |-> isError, name |-> name, code |-> code,
   keyPattern |-> keyPattern, errors |-> errors, message |-> message]

NoError == Thrown(FALSE, "none", 0, <<>>, <<>>, <<>>)

TypeError(message) == Thrown(TRUE, "TypeError", 0, <<>>, <<>>, message)

\* the repository's failure modes, as Mongoose raises them
DuplicateKey(field) ==
  Thrown(TRUE, "MongoServerError", 11000, <<field>>, <<>>, <<"E11000 duplicate key error">>)

SchemaValidation(messages) ==
  Thrown(TRUE, "ValidationError", 0, <<>>, messages, <<"User validation failed">>)

ConnectionFailure ==
  Thrown(TRUE, "MongooseServerSelectionError", 0, <<>>, <<>>, <<"connect ECONNREFUSED">>)

\* a rejection with a value that is not an Error
UnknownFailure == Thrown(FALSE, "", 0, <<>>, <<>>, <<>>)

(***************************************************************************)
(* Error mapper: the inner catch block.                                    *)
(***************************************************************************)
\* errors.join(', ')
RECURSIVE Join(_)
Join(errors) ==
  IF errors = <<>> THEN <<>>
  ELSE IF Len(errors) = 1 THEN errors[1]
  ELSE errors[1] \o <<", ">> \o Join(Tail(errors))

\* faulty variant: the ValidationError branch dropped
MapErrorNoValidation(error) ==
  IF error.code = 11000
    THEN handleError(<<IF error.keyPattern = <<>> THEN "undefined" ELSE error.keyPattern[1],
                       " already exists">>, 400)
  ELSE handleError(MsgDbFailed \o
                   (IF error.isError THEN error.message ELSE <<"Unknown error occurred">>), 500)

\* faulty variant: the duplicate-key branch dropped
MapErrorNoDuplicate(error) ==
  IF error.isError /\ error.name = "ValidationError"
    THEN handleError(Join(error.errors), 400)
  ELSE handleError(MsgDbFailed \o
                   (IF error.isError THEN error.message ELSE <<"Unknown error occurred">>), 500)

MapError(error) ==
  IF error.code = 11000
    THEN handleError(<<IF error.keyPattern = <<>> THEN "undefined" ELSE error.keyPattern[1],
                       " already exists">>, 400)
  ELSE IF error.isError /\ error.name = "ValidationError"
    THEN handleError(Join(error.errors), 400)
  ELSE handleError(MsgDbFailed \o
                   (IF error.isError THEN error.message ELSE <<"Unknown error occurred">>), 500)

(***************************************************************************)
(* The document handed to User.create.                                     *)
(***************************************************************************)
NoData == [threw |-> FALSE, error |-> NoError,
           data |-> [name |-> Undef, email |-> Undef, password |-> Undef,
                     phone |-> Undef, role |-> Undef, employeeId |-> Undef]]

\* faulty variant: the email stored as sent
NormalizeEmailAsSent(email) == email

\* email.toLowerCase().trim()
NormalizeEmail(email) == Trim(ToLowerCase(email))

\* const { ..., role = 'user' } = body
RoleOf(body) == IF body.role.k = "undefined" THEN Str(<<"user">>) ELSE body.role

\* the userData literal; a property that is no string has no trim/toLowerCase
BuildUserData(body) ==
  IF body.name.k # "string"
    THEN [NoData EXCEPT !.threw = TRUE, !.error = TypeError(<<"name.trim", " is not a function">>)]
  ELSE IF body.email.k # "string"
    THEN [NoData EXCEPT !.threw = TRUE, !.error = TypeError(<<"email.toLowerCase", " is not a function">>)]
  ELSE IF body.phone.k = "number"
    THEN [NoData EXCEPT !.threw = TRUE, !.error = TypeError(<<"phone?.trim", " is not a function">>)]
  ELSE [threw |-> FALSE, error |-> NoError,
        data |-> [name |-> Str(Trim(body.name.s)),
                  email |-> Str(NormalizeEmail(body.email.s)),
                  password |-> body.password,
                  phone |-> IF body.phone.k = "string" THEN Str(Trim(body.phone.s)) ELSE Undef,
                  role |-> RoleOf(body),
                  employeeId |-> IF Truthy(body.employeeId) THEN body.employeeId ELSE Undef]]

\* faulty variant: the created document returned whole
ToResponseUserWithPassword(doc) == doc

\* user.toObject(); delete userObject.password
ToResponseUser(doc) == [f \in DOMAIN doc \ {"password"} |-> doc[f]]

Created(doc) ==
  [status |-> 201,
   body |-> [user |-> ToResponseUser(doc), message |-> MsgCreated, success |-> TRUE]]

(***************************************************************************)
(* User repository.                                                        *)
(***************************************************************************)
Roles == {Str(<<"user">>), Str(<<"partner">>), Str(<<"admin">>)}

\* the pre-save hook's hash, kept opaque
Hash(password) == Str(<<"#">> \o StringOf(password))

\* User.findOne({ email }): the records whose email is the value given
findOne(st, email) == {r \in st : r.email = email}

\* User.create(data): schema validation, then the unique index on email
create(st, id, data) ==
  IF data.role \notin Roles
    THEN [threw |-> TRUE, error |-> SchemaValidation(<< <<data.role.s[1], " is not a valid enum value for path role.">> >>),
          store |-> st]
  ELSE IF \E r \in st : r.email = data.email
    THEN [threw |-> TRUE, error |-> DuplicateKey("email"), store |-> st]
  ELSE [threw |-> FALSE, error |-> NoError,
        store |-> st \cup {[id |-> id, name |-> data.name, email |-> data.email,
                            password |-> Hash(data.password), phone |-> data.phone,
                            role |-> data.role, employeeId |-> data.employeeId]}]

(***************************************************************************)
(* Requests.                                                               *)
(***************************************************************************)
Names == {Undef, Str(<<>>), Str(<<"A">>), Str(<<" ", "A">>), Num(<<"7">>)}

Emails ==
  {Undef, Str(<<>>), Num(<<"7">>),
   Str(<<"a", "@", "b", ".", "c">>), Str(<<"A", "@", "b", ".", "c">>),
   Str(<<"a", "@", "b", "c">>), Str(<<" ", "a", "@", "b", ".", "c">>)}

Passwords ==
  {Undef, Str(<<>>), Num(<<"1", "2", "3">>),
   Str(<<"s", "e", "c", "r", "e">>), Str(<<"s", "e", "c", "r", "e", "t">>)}

Phones == {Undef, Str(<<" ", "9">>), Num(<<"9">>)}

RequestRoles == {Undef, Str(<<"admin">>), Str(<<"root">>)}

EmployeeIds == {Undef, Str(<<"E", "1">>)}

AllBodies ==
  {NonObject("malformed"), NonObject("null"), NonObject("scalar")}
  \cup {Body("object", n, e, pw, ph, r, id) :
          n \in Names, e \in Emails, pw \in Passwords, ph \in Phones,
          r \in RequestRoles, id \in EmployeeIds}

\* the requests of the concurrent runs: signups that pass validation,
\* with emails that differ in letter case or altogether
RaceBodies ==
  {Body("object", Str(<<"A">>), e, Str(<<"s", "e", "c", "r", "e", "t">>), Undef, Undef, Undef) :
     e \in {Str(<<"a", "@", "b", ".", "c">>), Str(<<"A", "@", "b", ".", "c">>),
            Str(<<"b", "@", "b", ".", "c">>), Str(<<"a", "@", "b", "c">>)}}

(***************************************************************************)
(* State.                                                                  *)
(***************************************************************************)
VARIABLES
  mode,      \* "seq": one request at a time; "race": MaxProcs handlers interleave
  pc,        \* each handler's position: the await it is suspended at
  req,       \* the body of the request each handler serves
  resp,      \* the response each handler returned, NoResponse until then
  userData,  \* the userData local of each handler
  store,     \* the users collection
  nextId,    \* the next identifier the repository assigns
  count,     \* requests received so far
  raised,    \* the value thrown while serving the request, NoError if none
  calls,     \* the repository calls each handler has made
  before,    \* the users collection when the request arrived
  created    \* the identifier of the record the request created, 0 if none

vars == <<mode, pc, req, resp, userData, store, nextId, count, raised, calls, before, created>>

Active == IF mode = "seq" THEN {1} ELSE Procs

Pool == IF mode = "seq" THEN AllBodies ELSE RaceBodies

InitWith(m) ==
  /\ mode = m
  /\ pc = [p \in Procs |-> "idle"]
  /\ req = [p \in Procs |-> NonObject("malformed")]
  /\ resp = [p \in Procs |-> NoResponse]
  /\ userData = [p \in Procs |-> NoData.data]
  /\ store = {}
  /\ nextId = 1
  /\ count = 0
  /\ raised = [p \in Procs |-> NoError]
  /\ calls = [p \in Procs |-> {}]
  /\ before = [p \in Procs |-> {}]
  /\ created = [p \in Procs |-> 0]

Init == InitWith("seq")

InitRace == InitWith("race")

(***************************************************************************)
(* POST, one action per stretch of code between two awaits.                *)
(***************************************************************************)
\* request.json(), the destructuring and the validation rules; a null
\* body cannot be destructured and the outer catch answers
Parse(body) ==
  IF body.kind = "malformed"
    THEN [resp |-> handleError(MsgInvalidJSON, 400), error |-> NoError]
  ELSE IF body.kind = "null"
    THEN [resp |-> handleError(MsgUnexpected, 500),
          error |-> TypeError(<<"Cannot destructure property 'name' of 'body' as it is null.">>)]
  ELSE IF Validate(body) # <<>>
    THEN [resp |-> handleError(Validate(body), 400), error |-> NoError]
  ELSE [resp |-> NoResponse, error |-> NoError]

\* the inner catch: the response for a thrown value
Catch(p, error) ==
  /\ resp' = [resp EXCEPT ![p] = MapError(error)]
  /\ raised' = [raised EXCEPT ![p] = error]
  /\ pc' = [pc EXCEPT ![p] = "done"]

Receive(p) ==
  /\ p \in Active
  /\ pc[p] = "idle"
  /\ count < MaxRequests
  /\ count' = count + 1
  /\ \E b \in Pool :
       LET r == Parse(b) IN
       /\ req' = [req EXCEPT ![p] = b]
       /\ resp' = [resp EXCEPT ![p] = r.resp]
       /\ raised' = [raised EXCEPT ![p] = r.error]
       /\ pc' = [pc EXCEPT ![p] = IF r.resp = NoResponse THEN "connect" ELSE "done"]
  /\ before' = [before EXCEPT ![p] = store]
  /\ UNCHANGED <<mode, userData, store, nextId, calls, created>>

\* await connectDB()
Connect(p) ==
  /\ pc[p] = "connect"
  /\ calls' = [calls EXCEPT ![p] = @ \cup {"connectDB"}]
  /\ \E f \in {NoError, ConnectionFailure, UnknownFailure} :
       IF f # NoError
         THEN Catch(p, f)
         ELSE /\ pc' = [pc EXCEPT ![p] = "findOne"]
              /\ UNCHANGED <<resp, raised>>
  /\ UNCHANGED <<mode, req, userData, store, nextId, count, before, created>>

\* await User.findOne({ email }), the existingUser test and the userData literal
FindOne(p) ==
  /\ pc[p] = "findOne"
  /\ calls' = [calls EXCEPT ![p] = @ \cup {"findOne"}]
  /\ \E f \in {NoError, ConnectionFailure, UnknownFailure} :
       IF f # NoError
         THEN Catch(p, f) /\ UNCHANGED userData
       ELSE IF findOne(store, req[p].email) # {}
         THEN /\ resp' = [resp EXCEPT ![p] = handleError(MsgExists, 400)]
              /\ pc' = [pc EXCEPT ![p] = "done"]
              /\ UNCHANGED <<raised, userData>>
       ELSE IF BuildUserData(req[p]).threw
         THEN Catch(p, BuildUserData(req[p]).error) /\ UNCHANGED userData
       ELSE /\ userData' = [userData EXCEPT ![p] = BuildUserData(req[p]).data]
            /\ pc' = [pc EXCEPT ![p] = "create"]
            /\ UNCHANGED <<resp, raised>>
  /\ UNCHANGED <<mode, req, store, nextId, count, before, created>>

\* await User.create(userData) and the 201 response
Create(p) ==
  /\ pc[p] = "create"
  /\ calls' = [calls EXCEPT ![p] = @ \cup {"create"}]
  /\ \E f \in {NoError, ConnectionFailure, UnknownFailure,
               SchemaValidation(<< <<"Path name is too long.">>, <<"Path phone is invalid.">> >>)} :
       LET r == create(store, nextId, userData[p]) IN
       IF f # NoError
         THEN Catch(p, f) /\ UNCHANGED <<store, nextId, created>>
       ELSE IF r.threw
         THEN Catch(p, r.error) /\ UNCHANGED <<store, nextId, created>>
       ELSE /\ store' = r.store
            /\ nextId' = nextId + 1
            /\ created' = [created EXCEPT ![p] = nextId]
            /\ resp' = [resp EXCEPT ![p] = Created(CHOOSE d \in r.store : d.id = nextId)]
            /\ pc' = [pc EXCEPT ![p] = "done"]
            /\ UNCHANGED raised
  /\ UNCHANGED <<mode, req, userData, count, before>>

\* the invocation is over: its response is delivered and its locals are gone
Return(p) ==
  /\ pc[p] = "done"
  /\ pc' = [pc EXCEPT ![p] = "idle"]
  /\ req' = [req EXCEPT ![p] = NonObject("malformed")]
  /\ resp' = [resp EXCEPT ![p] = NoResponse]
  /\ userData' = [userData EXCEPT ![p] = NoData.data]
  /\ raised' = [raised EXCEPT ![p] = NoError]
  /\ calls' = [calls EXCEPT ![p] = {}]
  /\ before' = [before EXCEPT ![p] = {}]
  /\ created' = [created EXCEPT ![p] = 0]
  /\ UNCHANGED <<mode, store, nextId, count>>

Next ==
  \E p \in Procs : Receive(p) \/ Connect(p) \/ FindOne(p) \/ Create(p) \/ Return(p)

\* requests served one after the other
Spec == Init /\ [][Next]_vars

\* MaxProcs handlers served concurrently
SpecRace == InitRace /\ [][Next]_vars

(***************************************************************************)
(* The rules of the contract, stated apart from the handler's code.        *)
(***************************************************************************)
Done(p) == pc[p] = "done"

Parsed(b) == b.kind # "malformed"

\* a property that is absent or the empty string
AbsentOrEmpty(v) == v = Undef \/ v = Str(<<>>)

MissingField(b) ==
  AbsentOrEmpty(b.name) \/ AbsentOrEmpty(b.email) \/ AbsentOrEmpty(b.password)

Count(s, c) == Cardinality({i \in 1..Len(s) : s[i] = c})

\* local@domain.tld: one "@", no whitespace, a non-empty local part, and a
\* "." inside the domain part with text on both sides of it
LocalAtDomainTld(v) ==
  LET s == StringOf(v)
      at == CHOOSE i \in 1..Len(s) : s[i] = "@"
  IN /\ Count(s, "@") = 1
     /\ Count(s, " ") = 0
     /\ at > 1
     /\ \E j \in (at + 2)..(Len(s) - 1) : s[j] = "."

WeakPassword(b) == b.password.k = "string" /\ Len(b.password.s) < 6

\* the message of the first rule the body violates, <<>> when it violates none
FirstViolated(b) ==
  IF ~Parsed(b) THEN MsgInvalidJSON
  ELSE IF MissingField(b) THEN MsgRequired
  ELSE IF ~LocalAtDomainTld(b.email) THEN MsgEmail
  ELSE IF WeakPassword(b) THEN MsgPassword
  ELSE <<>>

RulesViolated(b) ==
  Cardinality({r \in {"missing", "email", "password"} :
     \/ r = "missing" /\ MissingField(b)
     \/ r = "email" /\ ~LocalAtDomainTld(b.email)
     \/ r = "password" /\ WeakPassword(b)})

Normalized(s) == Trim(ToLowerCase(s))

\* the store held a record for the request's email when the request arrived
EmailPresent(p) ==
  /\ req[p].email.k = "string"
  /\ \E r \in before[p] : r.email = Str(Normalized(req[p].email.s))

SaysAlreadyExists(message) == \E i \in 1..Len(message) : message[i] = " already exists"

AllStrings(b) ==
  /\ b.name.k = "string" /\ b.email.k = "string" /\ b.password.k = "string"
  /\ b.phone.k # "number"

RepositoryFailed(p) == raised[p] # NoError /\ raised[p].name # "TypeError"

HasNoPassword(r) ==
  /\ "password" \notin DOMAIN r.body
  /\ "user" \in DOMAIN r.body => "password" \notin DOMAIN r.body.user

C2_UniqueNormalizedEmail ==
  \A r1 \in store, r2 \in store :
    Normalized(r1.email.s) = Normalized(r2.email.s) => r1 = r2

\* two handlers passed the pre-check for the same email and one lost at create
C2_Witness ==
  \E p \in Procs :
    /\ Done(p)
    /\ raised[p] = DuplicateKey("email")
    /\ \E r \in store : r.email = req[p].email /\ r \notin before[p]
    /\ Cardinality(store) = 2

\* C3: a request whose create call succeeds is answered 201 with success
\* true, "User created successfully" and a user without a password key; a
\* valid request whose email is new and that meets no failure gets there; and
\* no response of any status carries a password.
C3_CreatedWithoutPassword ==
  \A p \in Procs :
    Done(p) =>
      /\ HasNoPassword(resp[p])
      /\ ("create" \in calls[p] /\ raised[p] = NoError) =>
           /\ resp[p].status = 201
           /\ resp[p].body.success = TRUE
           /\ resp[p].body.message = MsgCreated
           /\ DOMAIN resp[p].body = {"user", "message", "success"}
           /\ resp[p].body.user.email = Str(Normalized(req[p].email.s))
           /\ \E r \in store : r.id = created[p] /\ r.id = resp[p].body.user.id
      /\ (/\ FirstViolated(req[p]) = <<>>
          /\ AllStrings(req[p])
          /\ ~EmailPresent(p)
          /\ raised[p] = NoError) => resp[p].status = 201

C3_Witness ==
  \E p \in Procs :
    /\ Done(p)
    /\ req[p].name = Str(<<"A">>)
    /\ req[p].password = Str(<<"s", "e", "c", "r", "e", "t">>)
    /\ resp[p].status = 201
    /\ created[p] # 0
    /\ "password" \notin DOMAIN resp[p].body.user
    /\ \E r \in store : r.id = created[p] /\ r.password = Hash(req[p].password)

\* C4: every parsed body in which name, email or password is absent or
\* empty is answered 400 with "Name, email, and password are required".
C4_MissingFieldAnswered ==
  \A p \in Procs :
    Done(p) /\ Parsed(req[p]) /\ MissingField(req[p]) =>
      resp[p] = handleError(MsgRequired, 400)

\* C5: every request with name, email and password present whose email is
\* not of the form local@domain.tld is answered 400 with "Please enter a
\* valid email address".
C5_InvalidEmailAnswered ==
  \A p \in Procs :
    (/\ Done(p) /\ Parsed(req[p])
     /\ Truthy(req[p].name) /\ Truthy(req[p].email) /\ Truthy(req[p].password)
     /\ ~LocalAtDomainTld(req[p].email)) =>
      resp[p] = handleError(MsgEmail, 400)

C5_Witness ==
  \E p \in Procs :
    /\ Done(p)
    /\ req[p].email = Str(<<"a", "@", "b", "c">>)
    /\ req[p].password = Str(<<"s", "e", "c", "r", "e", "t">>)
    /\ resp[p] = handleError(MsgEmail, 400)

\* C6: a request whose password has fewer than 6 characters is answered 400
\* and creates no record; a password of exactly 6 characters is never
\* answered with the password-length message.
C6_ShortPasswordRejected ==
  \A p \in Procs :
    Done(p) =>
      /\ WeakPassword(req[p]) => (resp[p].status = 400 /\ created[p] = 0 /\ calls[p] = {})
      /\ (req[p].password.k = "string" /\ Len(req[p].password.s) = 6) =>
           resp[p].body.message # MsgPassword

C6_Witness ==
  \E p \in Procs :
    /\ Done(p)
    /\ Len(req[p].password.s) = 5
    /\ FirstViolated(req[p]) = MsgPassword
    /\ resp[p] = handleError(MsgPassword, 400)

\* C7: a 400 response to a request that violates a validation rule carries
\* the message of the first rule violated, in the order malformed body,
\* missing field, invalid email, weak password.
C7_FirstViolatedRuleNamed ==
  \A p \in Procs :
    (Done(p) /\ FirstViolated(req[p]) # <<>> /\ resp[p].status = 400) =>
      resp[p].body.message = FirstViolated(req[p])

\* a request that breaks the email rule and the password rule at once
C7_Witness ==
  \E p \in Procs :
    /\ Done(p)
    /\ RulesViolated(req[p]) = 2
    /\ WeakPassword(req[p])
    /\ resp[p] = handleError(MsgEmail, 400)

\* C8: a failure raised by the repository is answered by its kind: duplicate
\* key on field f, 400 "f already exists"; schema validation, 400 with the
\* messages joined by ", "; any other, 500 with a message that starts
\* "Database operation failed: ".
C8_RepositoryFailureMapped ==
  \A p \in Procs :
    (Done(p) /\ RepositoryFailed(p)) =>
      LET e == raised[p] m == resp[p].body.message IN
      /\ DOMAIN resp[p].body = {"message"}
      /\ (\E f \in {"email"} : e = DuplicateKey(f)) =>
           (resp[p].status = 400 /\ m = <<e.keyPattern[1], " already exists">>)
      /\ (e = SchemaValidation(e.errors) /\ Len(e.errors) = 1) =>
           (resp[p].status = 400 /\ m = e.errors[1])
      /\ (e = SchemaValidation(e.errors) /\ Len(e.errors) = 2) =>
           (resp[p].status = 400 /\ m = e.errors[1] \o <<", ">> \o e.errors[2])
      /\ e \in {ConnectionFailure, UnknownFailure} =>
           (resp[p].status = 500 /\ Len(m) > 1 /\ m[1] = "Database operation failed: ")
      /\ \/ \E f \in {"email"} : e = DuplicateKey(f)
         \/ e = SchemaValidation(e.errors) /\ Len(e.errors) \in {1, 2}
         \/ e \in {ConnectionFailure, UnknownFailure}

C8_Witness ==
  \E p \in Procs :
    /\ Done(p)
    /\ raised[p].name = "ValidationError" /\ Len(raised[p].errors) = 2
    /\ resp[p].status = 400
    /\ Len(resp[p].body.message) = 3

\* C9: a request that passes validation and whose email differs only in
\* letter case from a stored record's is answered 400 "User with this email
\* already exists" by the pre-check, without a call of create.
C9_PreCheckNormalized ==
  \A p \in Procs :
    (/\ Done(p)
     /\ FirstViolated(req[p]) = <<>> /\ AllStrings(req[p])
     /\ "findOne" \in calls[p]
     /\ raised[p] \notin {ConnectionFailure, UnknownFailure}
     /\ \E r \in before[p] : r.email # req[p].email /\ r.email.s = ToLowerCase(req[p].email.s)) =>
      resp[p] = handleError(MsgExists, 400) /\ "create" \notin calls[p]

\* C10: every invocation ends with one response of status 201, 400 or 500,
\* and 500 answers only a failure of the repository, never a fault of the
\* client's input.
C10_ServerErrorOnlyOperational ==
  \A p \in Procs :
    Done(p) =>
      /\ resp[p].status \in {201, 400, 500}
      /\ resp[p].status = 500 => raised[p] \in {ConnectionFailure, UnknownFailure}

====
